---- MODULE Spec2Model ----
(***************************************************************************)
(* Model of the worker pool of src/src/lib.rs: ThreadPool (new, build,     *)
(* execute, Drop), Worker (new, build: the receive loop) and the mpsc      *)
(* channel whose Receiver sits behind an Arc<Mutex<..>>.                   *)
(*                                                                         *)
(* One owner thread constructs the pool, submits jobs and drops the pool;  *)
(* every spawned worker thread runs concurrently with it.  Each action is  *)
(* one step of one thread between two points where another thread can      *)
(* observe it (a lock acquisition, a channel operation, a job, a join).    *)
(***************************************************************************)
EXTENDS Integers, Sequences, FiniteSets, TLC

\* ---------------------------------------------------------------- bounds
MaxSize == 3
MaxJobs == 2

Ids  == 0 .. (MaxSize - 1)
Jobs == 1 .. MaxJobs

NoHolder == -1
NoJob    == 0

VARIABLES
    pc,         \* position of the owner thread
    mode,       \* which constructor the owner calls: "new" or "build"
    size,       \* the constructor's argument
    id,         \* loop variable of the spawn / terminate / join loops
    workers,    \* ThreadPool.workers, as the sequence of Worker.id
    thread,     \* Worker.thread of each worker: "None" or "Some"
    sender,     \* ThreadPool.sender (the only Sender): "None" or "Some"
    queue,      \* the messages in the channel, oldest first
    lockHolder, \* the worker holding the MutexGuard of the receiver
    poisoned,   \* the poison flag of the receiver's Mutex
    wpc,        \* position of each worker thread
    cur,        \* the job a worker is running
    nextJob,    \* the number the next submitted job gets
    received,   \* for each job, how often a worker received it
    completions,\* for each job, how often its callable ran to its end
    failed,     \* the jobs whose callable panicked
    termSent,   \* Terminate messages sent so far
    termRecv,   \* for each worker, the Terminate messages it received
    joined,     \* the workers whose thread the destructor has joined
    busyAtDrop, \* whether some worker was running a job when drop began
    err         \* the PoolCreationError the constructor returned, with the worker index in its text

vars == <<pc, mode, size, id, workers, thread, sender, queue, lockHolder,
          poisoned, wpc, cur, nextJob, received, completions, failed,
          termSent, termRecv, joined, busyAtDrop, err>>

ownerVars  == <<pc, id, workers, thread, sender, err, joined, busyAtDrop, termSent>>
ghostJobs  == <<received, completions, failed>>

\* ------------------------------------------------------------- messages
NoError == <<"", -1>>
ZeroSize == <<"ZeroSize", -1>>
ThreadCreationErrorNext(k) == <<"ThreadCreationError", k + 1>>
ThreadCreationError(k) == <<"ThreadCreationError", k>>

NewJob(j)  == <<"NewJob", j>>
Terminate  == <<"Terminate", NoJob>>

\* mpsc::Sender::send: the message goes to the back of the channel
EnqueueFront(q, m) == <<m>> \o q
Enqueue(q, m) == Append(q, m)

\* mpsc::Receiver::recv: the message handed out is removed from the channel
DequeuePeek(q) == q
Dequeue(q) == Tail(q)

\* the Receiver is freed when the last Arc clone is: the constructor's local
\* one and the one moved into each worker closure
ReceiverAlive ==
    \/ pc = "spawning"
    \/ \E w \in Ids : wpc[w] \in {"lock", "recv", "exec"}

Spawned == {w \in Ids : wpc[w] # "unspawned"}
Running(w) == wpc[w] \in {"lock", "recv", "exec"}
Exited(w)  == wpc[w] \in {"stopped", "panicked"}

\* Mutex::lock waits while another thread holds the guard
LockFreeAlways == TRUE
LockFree == lockHolder = NoHolder

\* the guard is a temporary of the `let message = ...` statement: it is
\* dropped at the end of that statement, before the match
GuardKept(w) == w
GuardAfterRecv(w) == NoHolder

\* a panicking thread unwinds: a guard it holds is dropped and poisons the Mutex
UnwindHolderLeak(w) == lockHolder
UnwindHolder(w) == IF lockHolder = w THEN NoHolder ELSE lockHolder
UnwindPoisoned(w) == poisoned \/ lockHolder = w

\* `for _ in &self.workers`: one Terminate per worker
NumTerminateShort == Len(workers) - 1
NumTerminateExtra == Len(workers) + 1
NumTerminate == Len(workers)

\* `assert!(size > 0)` in new, `if size == 0` in build
SizeIsZeroNever == FALSE
SizeIsZero == size = 0

\* `for id in 0..size`: the number of workers the spawn loop creates
SpawnCountShort == size - 1
SpawnCount == size

\* mpsc::channel() is the unbounded channel: send never waits for room or
\* for a receiver
ChannelAcceptsRendezvous(q) == q = << >>
ChannelAccepts(q) == TRUE

\* the Terminate arm ends with `break`: the closure returns
AfterTerminateNoBreak == "lock"
AfterTerminate == "stopped"

\* JoinHandle::join returns once the thread has finished
JoinNoWait(w) == TRUE
JoinReady(w) == Exited(w)

\* ----------------------------------------------------------------- Init
Init ==
    /\ pc = "start"
    /\ mode \in {"new", "build"}
    /\ size \in 0 .. MaxSize
    /\ id = 0
    /\ workers = << >>
    /\ thread = [w \in Ids |-> "None"]
    /\ sender = "None"
    /\ queue = << >>
    /\ lockHolder = NoHolder
    /\ poisoned = FALSE
    /\ wpc = [w \in Ids |-> "unspawned"]
    /\ cur = [w \in Ids |-> NoJob]
    /\ nextJob = 1
    /\ received = [j \in Jobs |-> 0]
    /\ completions = [j \in Jobs |-> 0]
    /\ failed = {}
    /\ termSent = 0
    /\ termRecv = [w \in Ids |-> 0]
    /\ joined = {}
    /\ busyAtDrop = FALSE
    /\ err = NoError

\* ---------------------------------------------------------- construction
\* ThreadPool::new / ThreadPool::build up to the spawn loop
CtorBegin ==
    /\ pc = "start"
    /\ IF SizeIsZero
       THEN /\ pc' = IF mode = "new" THEN "new_panicked" ELSE "build_err"
            /\ err' = IF mode = "new" THEN NoError ELSE ZeroSize
            /\ UNCHANGED sender
       ELSE /\ pc' = "spawning"
            /\ sender' = "Some"
            /\ UNCHANGED err
    /\ UNCHANGED <<mode, size, id, workers, thread, queue, lockHolder, poisoned,
                   wpc, cur, nextJob, received, completions, failed, termSent,
                   termRecv, joined, busyAtDrop>>

\* one iteration of the spawn loop in which the thread is created
SpawnOk ==
    /\ pc = "spawning"
    /\ id < SpawnCount
    /\ wpc' = [wpc EXCEPT ![id] = "lock"]
    /\ workers' = Append(workers, id)
    /\ thread' = [thread EXCEPT ![id] = "Some"]
    /\ id' = id + 1
    /\ UNCHANGED <<pc, mode, size, sender, queue, lockHolder, poisoned, cur,
                   nextJob, received, completions, failed, termSent, termRecv,
                   joined, busyAtDrop, err>>

\* one iteration of the spawn loop in which the OS refuses the thread:
\* build returns Err, new panics in thread::spawn; either way the locals
\* (sender, receiver, workers) are dropped and the handles detached
SpawnFail ==
    /\ pc = "spawning"
    /\ id < SpawnCount
    /\ pc' = IF mode = "new" THEN "new_panicked" ELSE "build_err"
    /\ err' = IF mode = "new" THEN NoError ELSE ThreadCreationError(id)
    /\ sender' = "None"
    /\ workers' = << >>
    /\ thread' = [w \in Ids |-> "None"]
    /\ UNCHANGED <<mode, size, id, queue, lockHolder, poisoned, wpc, cur,
                   nextJob, received, completions, failed, termSent, termRecv,
                   joined, busyAtDrop>>

\* the spawn loop is over: the pool is returned
CtorReturn ==
    /\ pc = "spawning"
    /\ id = SpawnCount
    /\ pc' = "alive"
    /\ id' = 0
    /\ UNCHANGED <<mode, size, workers, thread, sender, queue, lockHolder,
                   poisoned, wpc, cur, nextJob, received, completions, failed,
                   termSent, termRecv, joined, busyAtDrop, err>>

\* ------------------------------------------------------------ submission
\* ThreadPool::execute: send(NewJob(job)).unwrap()
Execute ==
    /\ pc = "alive"
    /\ nextJob <= MaxJobs
    /\ ChannelAccepts(queue)
    /\ IF sender = "Some" /\ ReceiverAlive
       THEN /\ queue' = Enqueue(queue, NewJob(nextJob))
            /\ nextJob' = nextJob + 1
            /\ UNCHANGED pc
       ELSE /\ pc' = "execute_panicked"
            /\ UNCHANGED <<queue, nextJob>>
    /\ UNCHANGED <<mode, size, id, workers, thread, sender, lockHolder,
                   poisoned, wpc, cur, received, completions, failed, termSent,
                   termRecv, joined, busyAtDrop, err>>

\* ----------------------------------------------------------- destruction
\* the owner relinquishes the pool: Drop::drop is entered
DropBegin ==
    /\ pc = "alive"
    /\ pc' = "drop_terminate"
    /\ id' = 0
    /\ busyAtDrop' = (\E w \in Ids : wpc[w] = "exec")
    /\ UNCHANGED <<mode, size, workers, thread, sender, queue, lockHolder,
                   poisoned, wpc, cur, nextJob, received, completions, failed,
                   termSent, termRecv, joined, err>>

\* one iteration of the first loop: send(Message::Terminate).unwrap()
DropSendTerminate ==
    /\ pc = "drop_terminate"
    /\ id < NumTerminate
    /\ ChannelAccepts(queue)
    /\ IF sender = "Some" /\ ReceiverAlive
       THEN /\ queue' = Enqueue(queue, Terminate)
            /\ termSent' = termSent + 1
            /\ id' = id + 1
            /\ UNCHANGED <<pc, sender, thread>>
       ELSE /\ pc' = "drop_panicked"
            /\ sender' = "None"
            /\ thread' = [w \in Ids |-> "None"]
            /\ UNCHANGED <<queue, termSent, id>>
    /\ UNCHANGED <<mode, size, workers, lockHolder, poisoned, wpc, cur,
                   nextJob, received, completions, failed, termRecv, joined,
                   busyAtDrop, err>>

\* self.sender.take()
DropTakeSender ==
    /\ pc = "drop_terminate"
    /\ id >= NumTerminate
    /\ sender' = "None"
    /\ pc' = "drop_join"
    /\ id' = 0
    /\ UNCHANGED <<mode, size, workers, thread, queue, lockHolder, poisoned,
                   wpc, cur, nextJob, received, completions, failed, termSent,
                   termRecv, joined, busyAtDrop, err>>

\* one iteration of the second loop: worker.thread.take(), thread.join().unwrap()
DropJoin ==
    /\ pc = "drop_join"
    /\ id < Len(workers)
    /\ LET w == workers[id + 1] IN
       IF thread[w] = "Some"
       THEN /\ JoinReady(w)
            /\ IF wpc[w] = "panicked"
               THEN /\ pc' = "drop_panicked"
                    /\ thread' = [v \in Ids |-> "None"]
                    /\ UNCHANGED <<id, joined>>
               ELSE /\ thread' = [thread EXCEPT ![w] = "None"]
                    /\ joined' = joined \cup {w}
                    /\ id' = id + 1
                    /\ UNCHANGED pc
       ELSE /\ id' = id + 1
            /\ UNCHANGED <<pc, thread, joined>>
    /\ UNCHANGED <<mode, size, workers, sender, queue, lockHolder, poisoned,
                   wpc, cur, nextJob, received, completions, failed, termSent,
                   termRecv, busyAtDrop, err>>

\* the join loop is over: drop returns
DropReturn ==
    /\ pc = "drop_join"
    /\ id = Len(workers)
    /\ pc' = "drop_returned"
    /\ UNCHANGED <<mode, size, id, workers, thread, sender, queue, lockHolder,
                   poisoned, wpc, cur, nextJob, received, completions, failed,
                   termSent, termRecv, joined, busyAtDrop, err>>

\* --------------------------------------------------------------- workers
\* receiver.lock().unwrap(): wait for the lock; a poisoned lock panics
Lock(w) ==
    /\ wpc[w] = "lock"
    /\ LockFree
    /\ IF poisoned
       THEN /\ wpc' = [wpc EXCEPT ![w] = "panicked"]
            /\ UNCHANGED lockHolder
       ELSE /\ wpc' = [wpc EXCEPT ![w] = "recv"]
            /\ lockHolder' = w
    /\ UNCHANGED <<ownerVars, mode, size, queue, poisoned, cur, nextJob,
                   ghostJobs, termRecv>>

\* .recv().unwrap() hands out a message; the match arm is entered
Recv(w) ==
    /\ wpc[w] = "recv"
    /\ queue # << >>
    /\ LET m == Head(queue) IN
       /\ queue' = Dequeue(queue)
       /\ lockHolder' = GuardAfterRecv(w)
       /\ IF m[1] = "NewJob"
          THEN /\ wpc' = [wpc EXCEPT ![w] = "exec"]
               /\ cur' = [cur EXCEPT ![w] = m[2]]
               /\ received' = [received EXCEPT ![m[2]] = @ + 1]
               /\ UNCHANGED termRecv
          ELSE /\ wpc' = [wpc EXCEPT ![w] = AfterTerminate]
               /\ termRecv' = [termRecv EXCEPT ![w] = @ + 1]
               /\ UNCHANGED <<cur, received>>
    /\ UNCHANGED <<ownerVars, mode, size, poisoned, nextJob, completions, failed>>

\* .recv() fails: the channel is empty and the Sender is gone; unwrap panics
\* while the guard is alive
RecvDisconnected(w) ==
    /\ wpc[w] = "recv"
    /\ queue = << >>
    /\ sender = "None"
    /\ wpc' = [wpc EXCEPT ![w] = "panicked"]
    /\ lockHolder' = UnwindHolder(w)
    /\ poisoned' = UnwindPoisoned(w)
    /\ UNCHANGED <<ownerVars, mode, size, queue, cur, nextJob, ghostJobs, termRecv>>

\* job() returns: back to the top of the loop
JobReturns(w) ==
    /\ wpc[w] = "exec"
    /\ completions' = [completions EXCEPT ![cur[w]] = @ + 1]
    /\ cur' = [cur EXCEPT ![w] = NoJob]
    /\ wpc' = [wpc EXCEPT ![w] = "lock"]
    /\ UNCHANGED <<ownerVars, mode, size, queue, lockHolder, poisoned, nextJob,
                   received, failed, termRecv>>

\* job() panics: nothing catches it, the worker thread unwinds and ends
JobPanics(w) ==
    /\ wpc[w] = "exec"
    /\ failed' = failed \cup {cur[w]}
    /\ cur' = [cur EXCEPT ![w] = NoJob]
    /\ wpc' = [wpc EXCEPT ![w] = "panicked"]
    /\ lockHolder' = UnwindHolder(w)
    /\ poisoned' = UnwindPoisoned(w)
    /\ UNCHANGED <<ownerVars, mode, size, queue, nextJob, received, completions,
                   termRecv>>

Worker(w) ==
    \/ Lock(w)
    \/ Recv(w)
    \/ RecvDisconnected(w)
    \/ JobReturns(w)
    \/ JobPanics(w)

\* ----------------------------------------------------------------- Next
Next ==
    \/ CtorBegin
    \/ SpawnOk
    \/ SpawnFail
    \/ CtorReturn
    \/ Execute
    \/ DropBegin
    \/ DropSendTerminate
    \/ DropTakeSender
    \/ DropJoin
    \/ DropReturn
    \/ \E w \in Ids : Worker(w)

Spec == Init /\ [][Next]_vars

\* the scheduling the threads get: the destructor, once entered, runs on; a
\* worker thread that can take a step eventually takes one; a job that was
\* started comes to an end, by returning or by panicking
Fairness ==
    /\ WF_vars(DropSendTerminate)
    /\ WF_vars(DropTakeSender)
    /\ WF_vars(DropJoin)
    /\ WF_vars(DropReturn)
    /\ \A w \in Ids :
        /\ WF_vars(Lock(w))
        /\ WF_vars(Recv(w))
        /\ WF_vars(RecvDisconnected(w))
        /\ WF_vars(JobReturns(w) \/ JobPanics(w))

LiveSpec == Init /\ [][Next]_vars /\ Fairness

\* a job that runs for as long as it likes (the `/sleep` request of the
\* server): the first one submitted
LongJob == 1

\* as Fairness, but the long job need not come to an end
FairnessLong ==
    /\ WF_vars(DropSendTerminate)
    /\ WF_vars(DropTakeSender)
    /\ WF_vars(DropJoin)
    /\ WF_vars(DropReturn)
    /\ \A w \in Ids :
        /\ WF_vars(Lock(w))
        /\ WF_vars(Recv(w))
        /\ WF_vars(RecvDisconnected(w))
        /\ WF_vars((JobReturns(w) \/ JobPanics(w)) /\ cur[w] # LongJob)

LongSpec == Init /\ [][Next]_vars /\ FairnessLong

\* ------------------------------------------------------------ properties
Submitted == 1 .. (nextJob - 1)
Invocations(j) == completions[j] + (IF j \in failed THEN 1 ELSE 0)
QueuePos == 1 .. Len(queue)

\* C1: every submitted job is received at most once, is in execution on at
\* most one worker at a time, and its callable is invoked at most once.
C1_AtMostOnce ==
    \A j \in Jobs :
        /\ received[j] <= 1
        /\ Cardinality({w \in Ids : cur[w] = j}) <= 1
        /\ Invocations(j) + Cardinality({w \in Ids : cur[w] = j}) <= 1
        /\ j \notin Submitted => received[j] = 0

C1_Witness ==
    \E j \in Jobs :
        /\ Len(workers) >= 2
        /\ completions[j] = 1
        /\ received[j] = 1

\* C2: when drop has returned, each of the M submitted jobs has completed
\* exactly once and no other completion is recorded, whether M < N or M > N.
C2_AllCompletedAtReturn ==
    pc = "drop_returned" =>
        \A j \in Jobs : completions[j] = (IF j \in Submitted THEN 1 ELSE 0)

C2_Witness ==
    /\ pc = "drop_returned"
    /\ nextJob - 1 > Len(workers)
    /\ \A j \in Submitted : completions[j] = 1

\* C3: when drop has returned, every worker of the pool has left its loop,
\* its thread has been joined and its handle taken; no thread is running.
C3_AllJoinedAtReturn ==
    pc = "drop_returned" =>
        /\ Len(workers) = size
        /\ \A i \in 1 .. Len(workers) :
            /\ wpc[workers[i]] = "stopped"
            /\ workers[i] \in joined
            /\ thread[workers[i]] = "None"
        /\ \A w \in Ids : ~Running(w)

C3_Witness ==
    /\ pc = "drop_returned"
    /\ Len(workers) >= 2
    /\ Cardinality(joined) = Len(workers)

\* C4: once drop is entered it returns, unless a job panicked; and when it
\* has returned, each worker that was in a job when drop began has finished
\* that job and received a Terminate.
C4_ReturnedAfterBusy ==
    (pc = "drop_returned" /\ busyAtDrop) =>
        \A w \in Spawned : cur[w] = NoJob /\ termRecv[w] = 1

C4_DropReturns ==
    /\ []C4_ReturnedAfterBusy
    /\ (pc = "drop_terminate") ~> (pc = "drop_returned" \/ failed # {})

C4_Witness ==
    /\ pc = "drop_returned"
    /\ busyAtDrop
    /\ failed = {}

\* C5: in the channel no NewJob is behind a Terminate, and once a worker has
\* received a Terminate no NewJob is left in the channel.
C5_JobsBeforeTerminates ==
    /\ \A a, b \in QueuePos :
        (a < b /\ queue[a] = Terminate) => queue[b] = Terminate
    /\ (\E w \in Ids : termRecv[w] > 0) =>
        \A a \in QueuePos : queue[a] = Terminate

C5_Witness ==
    \E a, b \in QueuePos :
        /\ a < b
        /\ queue[a][1] = "NewJob"
        /\ queue[b] = Terminate

\* C6: drop sends exactly one Terminate per worker; no worker receives two;
\* when drop has returned every worker has received exactly one and none is
\* left in the channel.
C6_OneTerminateEach ==
    /\ termSent <= Len(workers)
    /\ pc \in {"drop_join", "drop_returned"} => termSent = Len(workers)
    /\ \A w \in Ids : termRecv[w] <= 1
    /\ pc = "drop_returned" =>
        /\ \A i \in 1 .. Len(workers) : termRecv[workers[i]] = 1
        /\ queue = << >>

C6_Witness ==
    /\ pc = "drop_returned"
    /\ Len(workers) >= 2
    /\ termSent = Len(workers)
    /\ \A i \in 1 .. Len(workers) : termRecv[workers[i]] = 1

\* C7: at most one worker is in recv, it is the holder of the lock, and
\* every other worker that is neither running a job nor finished is waiting
\* for the lock.
C7_MutualExclusion ==
    /\ Cardinality({w \in Ids : wpc[w] = "recv"}) <= 1
    /\ \A w \in Ids : wpc[w] = "recv" <=> lockHolder = w

C7_Witness ==
    \E w, v \in Ids :
        /\ w # v
        /\ wpc[w] = "recv"
        /\ lockHolder = w
        /\ wpc[v] = "lock"

\* C8: a worker that is running a job does not hold the receiver lock.
C8_NoLockWhileExecuting ==
    \A w \in Ids : wpc[w] = "exec" => lockHolder # w

C8_Witness ==
    \E w, v \in Ids :
        /\ wpc[w] = "exec"
        /\ wpc[v] = "recv"
        /\ lockHolder = v

\* C9: after a job has panicked, neither execute nor drop panics in the
\* caller.
C9_FailureNotPropagated ==
    failed # {} => pc \notin {"execute_panicked", "drop_panicked"}

\* C10: a job's panic stops its worker for good and touches nothing else:
\* the lock is neither left held nor poisoned, no thread is spawned in its
\* place, the other workers are where they were, and while the pool accepts
\* jobs the running workers are the N spawned less one per failed job.
C10_Inv ==
    /\ \A w \in Ids : wpc[w] = "panicked" => lockHolder # w
    /\ pc \in {"alive", "drop_terminate", "drop_join", "drop_returned", "drop_panicked"}
         => ~poisoned
    /\ pc = "alive" =>
         Cardinality({w \in Ids : Running(w)}) = size - Cardinality(failed)

C10_Step ==
    \A w \in Ids :
        /\ wpc[w] = "panicked" => wpc'[w] = "panicked"
        /\ (wpc[w] = "exec" /\ wpc'[w] = "panicked") =>
            /\ \A v \in Ids \ {w} : wpc'[v] = wpc[v]
            /\ lockHolder' = lockHolder
            /\ poisoned' = poisoned
            /\ queue' = queue
            /\ workers' = workers

C10_CapacityLoss == []C10_Inv /\ [][C10_Step]_vars

C10_Witness ==
    \E j, k \in Jobs :
        /\ j \in failed
        /\ received[j] = 1
        /\ completions[k] = 1
        /\ received[k] = 1
        /\ j < k
        /\ \E w \in Ids : wpc[w] = "panicked"

PoolStates == {"alive", "execute_panicked", "drop_terminate", "drop_join",
               "drop_returned", "drop_panicked"}

\* C11: a constructor called with size 0 ends in its failure exit (build
\* with the ZeroSize error, new with a panic) without having created the
\* channel or spawned a thread, and no pool exists.
C11_ZeroSizeRejected ==
    (size = 0 /\ pc # "start") =>
        /\ mode = "build" => (pc = "build_err" /\ err = ZeroSize)
        /\ mode = "new" => (pc = "new_panicked" /\ err = NoError)
        /\ Spawned = {}
        /\ workers = << >>
        /\ sender = "None"
        /\ pc \notin PoolStates

C11_Witness ==
    /\ size = 0
    /\ mode = "build"
    /\ pc = "build_err"
    /\ err = ZeroSize

\* C12: when build has returned a thread-creation error, the error names
\* the index k at which the spawn loop stood, exactly the workers 0..k-1
\* have been spawned, none with an index >= k, and no pool exists.
C12_StopsAtFirstFailure ==
    (pc = "build_err" /\ err[1] = "ThreadCreationError") =>
        /\ err[2] = id
        /\ err[2] < size
        /\ Spawned = 0 .. (err[2] - 1)
        /\ Cardinality(Spawned) <= err[2]
        /\ \A w \in Ids : w >= err[2] => wpc[w] = "unspawned"
        /\ workers = << >>
        /\ sender = "None"

C12_Witness ==
    /\ pc = "build_err"
    /\ err = ThreadCreationError(1)
    /\ size >= 2
    /\ wpc[0] # "unspawned"

\* C13: a pool that exists owns exactly size >= 1 workers, the i-th with
\* id i-1, all spawned; until the destructor takes it each has its handle,
\* and before the first job is submitted every one of the threads is live.
C13_AllOrNothing ==
    pc \in PoolStates =>
        /\ size >= 1
        /\ Len(workers) = size
        /\ \A i \in 1 .. Len(workers) : workers[i] = i - 1
        /\ Spawned = 0 .. (size - 1)
        /\ pc = "alive" => \A i \in 1 .. Len(workers) : thread[workers[i]] = "Some"
        /\ (pc = "alive" /\ nextJob = 1) => \A w \in Spawned : Running(w)

C13_Witness ==
    /\ pc = "alive"
    /\ size >= 2
    /\ Len(workers) = size
    /\ \A w \in 0 .. (size - 1) : Running(w)

C15_NoSendFails ==
    /\ pc # "execute_panicked"
    /\ pc = "drop_panicked" => termSent = Len(workers)

\* C16: in a pool that was constructed no worker is ever at a receive that
\* fails: the lock is never poisoned, a worker that stopped has received a
\* Terminate, and a worker that panicked did so in a job.
C16_StopOnlyByTerminate ==
    pc \in PoolStates =>
        /\ \A w \in Ids : ~ENABLED RecvDisconnected(w)
        /\ ~poisoned
        /\ \A w \in Ids : wpc[w] = "stopped" => termRecv[w] = 1
        /\ Cardinality({w \in Ids : wpc[w] = "panicked"}) = Cardinality(failed)

C16_Witness ==
    /\ pc = "drop_join"
    /\ sender = "None"
    /\ \E w, v \in Ids :
        /\ wpc[w] = "stopped"
        /\ termRecv[w] = 1
        /\ wpc[v] = "recv"
        /\ queue = <<Terminate>>

\* C17: after build has returned an error, every worker that was spawned
\* before the failure eventually leaves its loop and its thread ends; none
\* stays waiting for the lock or for a message.
C17_FailedBuildWorkersExit ==
    (pc = "build_err") ~> (\A w \in Ids : ~Running(w))

C17_Witness ==
    /\ pc = "build_err"
    /\ err = ThreadCreationError(2)
    /\ Exited(0)
    /\ Exited(1)

\* the worker's positions as the states of its state machine: Idle is
\* waiting for the lock or for a message
NormalMoves ==
    {<<"unspawned", "lock">>, <<"lock", "recv">>, <<"recv", "exec">>,
     <<"exec", "lock">>, <<"recv", "stopped">>}
PanicMoves ==
    {<<"exec", "panicked">>, <<"recv", "panicked">>, <<"lock", "panicked">>}

WorkerMovesIn(moves) ==
    \A w \in Ids :
        /\ wpc'[w] # wpc[w] => <<wpc[w], wpc'[w]>> \in moves
        /\ <<wpc[w], wpc'[w]>> = <<"recv", "exec">> =>
             (Head(queue)[1] = "NewJob" /\ cur'[w] = Head(queue)[2])
        /\ <<wpc[w], wpc'[w]>> = <<"recv", "stopped">> => Head(queue) = Terminate
        /\ (termRecv'[w] # termRecv[w] \/ cur'[w] \notin {cur[w], NoJob}) =>
             wpc[w] = "recv"
        /\ (cur[w] # NoJob /\ cur'[w] # NoJob) => cur'[w] = cur[w]

\* C18 as claimed: a worker only moves Idle -> Executing (on NewJob) -> Idle
\* and Idle -> Stopped (on Terminate), receives only when Idle, and Stopped
\* is terminal.
C18_OnlyNormalMoves == [][WorkerMovesIn(NormalMoves)]_vars

\* C18 as amended: besides those moves a worker's thread can end in a panic,
\* from Executing when the job panics and from Idle when lock or recv fails;
\* stopped and panicked are terminal, a worker receives only when Idle and
\* runs one job at a time.
C18_MovesWithPanic == [][WorkerMovesIn(NormalMoves \cup PanicMoves)]_vars

C18_Witness ==
    \E w, v \in Ids :
        /\ wpc[w] = "stopped"
        /\ termRecv[w] = 1
        /\ wpc[v] = "panicked"
        /\ \E j \in Jobs : completions[j] = 1

\* no worker is left for a waiting message: each spawned worker has
\* panicked or is in the long job
NoneLeftBut(j) ==
    \A w \in Spawned : wpc[w] = "panicked" \/ cur[w] = j

\* C19: with two or more workers, even if the long job never ends, every
\* other submitted job is eventually invoked unless all the other workers
\* have panicked, and once the destructor waits in its join loop every
\* worker that is not in the long job eventually ends.
C19_LongJobBlocksOnlyItsWorker ==
    /\ \A k \in Jobs \ {LongJob} :
        (k \in Submitted /\ size >= 2) ~> (Invocations(k) = 1 \/ NoneLeftBut(LongJob))
    /\ (pc = "drop_join" /\ size >= 2) ~>
        (\A w \in Spawned : Exited(w) \/ cur[w] = LongJob)

C19_Witness ==
    /\ pc = "drop_join"
    /\ \E w, v \in Ids :
        /\ wpc[w] = "exec"
        /\ cur[w] = LongJob
        /\ wpc[v] = "stopped"
        /\ termRecv[v] = 1
    /\ \E k \in Jobs \ {LongJob} : completions[k] = 1

\* C20: a job is taken out of the channel only after every job submitted
\* before it; with one worker it is taken out only after they have all
\* returned; and every submitted job is eventually invoked unless every
\* worker has panicked in a job.
C20_TakenInOrder ==
    \A j, k \in Jobs :
        (j < k /\ received[k] >= 1) =>
            /\ received[j] >= 1
            /\ size = 1 => completions[j] = 1

C20_FifoOrder ==
    /\ []C20_TakenInOrder
    /\ \A j \in Jobs :
        (j \in Submitted) ~> (Invocations(j) = 1 \/ Cardinality(failed) >= size)

C20_Witness ==
    \E j, k \in Jobs :
        /\ j < k
        /\ size >= 2
        /\ completions[k] = 1
        /\ \E w \in Ids : wpc[w] = "exec" /\ cur[w] = j

====
